---- MODULE Spec2Model ----
(***************************************************************************)
(* Model of the CV builder form (src/cv_builder.py).                       *)
(*                                                                         *)
(* Two parts:                                                              *)
(*   - the CV schema and its field validators (class CV), a pure function  *)
(*     from a candidate record to a list of validation errors, exercised   *)
(*     by the specification SpecCheck;                                     *)
(*   - the form lifecycle around CVForm (update / confirm / cancel) with   *)
(*     the submit pipeline render -> convert -> encode, exercised by the   *)
(*     specification Spec.  CVForm inherits the lifecycle from its base    *)
(*     class CatForm, which is not part of src/; the lifecycle actions     *)
(*     follow sections 4.2 and 6 of the design specification; the hooks    *)
(*     they call (submit, the message hooks) and ask_confirm follow        *)
(*     src/cv_builder.py.                                                  *)
(*                                                                         *)
(* A record is a function from the names of the fields that are present    *)
(* to their values (a Python dict); an absent field is not in its DOMAIN.  *)
(* A list entry of experience / education is a dict as well.               *)
(***************************************************************************)
EXTENDS Integers, Sequences, FiniteSets, TLC

VARIABLES
    state,          \* lifecycle state of the session
    record,         \* the session's record (dict of collected fields)
    lastOp,         \* the operation the last step performed
    outcome,        \* what the last operation returned to the caller
    pipelineRuns,   \* number of times submit has run in this session
    stages,         \* outcome of each pipeline stage of the last submit
    pc,             \* SpecCheck: "input" before the check, "checked" after
    input,          \* SpecCheck: the candidate record handed to CV
    result          \* SpecCheck: the error list CV validation produced

vars == <<state, record, lastOp, outcome, pipelineRuns, stages, pc, input, result>>

(***************************************************************************)
(* Bounds of the model.                                                    *)
(***************************************************************************)
\* longest experience / education list handed to the validators
MaxEntries == 2
\* longest experience / education list a session update supplies
MaxSessionEntries == 1

(***************************************************************************)
(* The CV schema (class CV).                                               *)
(***************************************************************************)
\* fields in declaration order; pydantic validates and reports in this order
FieldOrder ==
    << "full_name", "email", "phone_number", "linkedIn_profile",
       "portfolio_website", "summary", "skills", "experience", "education" >>

Fields == { FieldOrder[i] : i \in 1..Len(FieldOrder) }

\* Mutant: summary declared Optional[str] = Field(None, ...) instead of Field(...)
RequiredFieldsNoSummary ==
    { "full_name", "email", "skills", "experience", "education" }

\* fields declared with Field(...): a record without one gets a "missing" error
RequiredFields ==
    { "full_name", "email", "summary", "skills", "experience", "education" }

\* fields typed Optional[HttpUrl]
UrlFields == { "linkedIn_profile", "portfolio_website" }

\* required_keys of validate_experience
ExperienceKeys ==
    { "job_title", "company_name", "start_date", "end_date", "description" }

\* required_keys of validate_education
EducationKeys ==
    { "institution_name", "degree", "field_of_study", "start_date",
      "end_date", "description" }

\* the empty dict
EmptyDict == [k \in {} |-> ""]

\* HttpUrl: a URL is accepted when its scheme is http or https and it has a host
HttpUrlOk(u) == u.scheme \in {"http", "https"} /\ u.host # ""

\* one validation error: the field, the error type, and for the list validators
\* the keys the message names
Err(f, t, ks) == [loc |-> f, type |-> t, keys |-> ks]

\* Mutant: `if value is None` instead of `if not value`: an empty list passes
validate_skills_accepts_empty(value) == << >>

\* CV.validate_skills: raise ValueError when the list is empty
validate_skills(value) ==
    IF value = << >>
    THEN << Err("skills", "value_error", {}) >>
    ELSE << >>

\* the loop of a list validator: the first item lacking a required key raises,
\* and the message joins ALL required_keys
RECURSIVE ValidateEntries(_, _, _, _)
ValidateEntries(f, value, required_keys, i) ==
    IF i > Len(value) THEN << >>
    ELSE IF ~ (\A key \in required_keys : key \in DOMAIN value[i])
         THEN << Err(f, "value_error", required_keys) >>
         ELSE ValidateEntries(f, value, required_keys, i + 1)

\* Mutant: `any(key in item ...)` instead of `all(key in item ...)`
validate_experience_any(value) ==
    IF \E i \in 1..Len(value) :
            ~ (\E key \in ExperienceKeys : key \in DOMAIN value[i])
    THEN << Err("experience", "value_error", ExperienceKeys) >>
    ELSE << >>

\* Mutant: `return value` indented into the loop: only the first item is looked at
validate_experience_first_only(value) ==
    IF value # << >>
       /\ ~ (\A key \in ExperienceKeys : key \in DOMAIN value[1])
    THEN << Err("experience", "value_error", ExperienceKeys) >>
    ELSE << >>

\* CV.validate_experience
validate_experience(value) ==
    ValidateEntries("experience", value, ExperienceKeys, 1)

\* CV.validate_education
validate_education(value) ==
    ValidateEntries("education", value, EducationKeys, 1)

\* the errors pydantic collects for one field of the candidate record
FieldErrors(rec, f) ==
    IF f \notin DOMAIN rec
    THEN IF f \in RequiredFields THEN << Err(f, "missing", {}) >> ELSE << >>
    ELSE IF f \in UrlFields
         THEN IF HttpUrlOk(rec[f]) THEN << >> ELSE << Err(f, "url_parsing", {}) >>
    ELSE IF f = "skills" THEN validate_skills(rec[f])
    ELSE IF f = "experience" THEN validate_experience(rec[f])
    ELSE IF f = "education" THEN validate_education(rec[f])
    ELSE << >>      \* str fields: any text, the empty string included

\* CV(**rec): every field is validated, the errors are collected in field order
RECURSIVE CollectErrors(_, _)
CollectErrors(rec, i) ==
    IF i > Len(FieldOrder) THEN << >>
    ELSE FieldErrors(rec, FieldOrder[i]) \o CollectErrors(rec, i + 1)

CVValidate(rec) == CollectErrors(rec, 1)

(***************************************************************************)
(* Candidate records handed to the validators (SpecCheck).                 *)
(***************************************************************************)
\* all sequences over S of length at most n
BoundedSeq(S, n) == UNION { [1..k -> S] : k \in 0..n }

\* a list entry holding exactly the keys ks (the values are free text)
Entry(ks) == [k \in ks |-> "text"]

GoodUrl == [scheme |-> "https", host |-> "example.com"]
FtpUrl  == [scheme |-> "ftp", host |-> "example.com"]
NoHostUrl == [scheme |-> "http", host |-> ""]

ExperienceShapes ==
    { Entry(ExperienceKeys),
      Entry(ExperienceKeys \ {"end_date"}),
      Entry(ExperienceKeys \ {"job_title", "description"}) }

EducationShapes ==
    { Entry(EducationKeys), Entry(EducationKeys \ {"degree"}) }

\* the values a candidate record may hold for field f
CheckValues(f) ==
    CASE f = "full_name"         -> { "", "Ada Lovelace" }
      [] f = "email"             -> { "ada@example.com" }
      [] f = "phone_number"      -> { "+123456789" }
      [] f = "linkedIn_profile"  -> { GoodUrl, FtpUrl }
      [] f = "portfolio_website" -> { NoHostUrl }
      [] f = "summary"           -> { "", "Engineer" }
      [] f = "skills"            -> { << >>, << "math" >> }
      [] f = "experience"        -> BoundedSeq(ExperienceShapes, MaxEntries)
      [] f = "education"         -> BoundedSeq(EducationShapes, MaxEntries - 1)

\* every dict over FieldOrder[i..] : each field absent or holding one of its values
RECURSIVE Candidates(_)
Candidates(i) ==
    IF i > Len(FieldOrder) THEN { EmptyDict }
    ELSE LET rest == Candidates(i + 1)
             f == FieldOrder[i]
         IN  rest \cup { (f :> v) @@ r : v \in CheckValues(f), r \in rest }

CheckInputs == Candidates(1)

(***************************************************************************)
(* The form (class CVForm).                                                *)
(***************************************************************************)
\* Mutant: ask_confirm = False
ask_confirm_off == FALSE

\* CVForm.ask_confirm
ask_confirm == TRUE

RenderOutcomes  == { "ok", "raise" }
\* pisa.CreatePDF either succeeds, reports errors in the status it returns
\* (a partial document has been written to dest), or raises
ConvertOutcomes == { "ok", "err", "raise" }
EncodeOutcomes  == { "ok", "raise" }

\* what each stage did in a run of submit; a stage after a raise does not run
StagesOf(r, c, e) ==
    [ render  |-> r,
      convert |-> IF r = "raise" THEN "not_run" ELSE c,
      encode  |-> IF r = "raise" \/ c = "raise" THEN "not_run" ELSE e ]

NoStages == [render |-> "not_run", convert |-> "not_run", encode |-> "not_run"]

\* CVForm.submit: any exception of a stage gives the error message; otherwise the
\* download link is built from whatever the converter wrote to pdf_stream, the
\* status CreatePDF returns is not looked at
submit(form_data, r, c, e) ==
    IF r = "raise" \/ c = "raise" \/ e = "raise"
    THEN [text |-> "error", bytes |-> "none"]
    ELSE [text |-> "download",
          bytes |-> IF c = "ok" THEN "complete" ELSE "partial"]

\* CVForm.message_closed
message_closed == [text |-> "acknowledgment", bytes |-> "none"]

\* CVForm.message_wait_confirm
message_wait_confirm == [text |-> "summary", bytes |-> "none"]

\* CVForm.message_incomplete
message_incomplete == [text |-> "nudge", bytes |-> "none"]

NoOutput == [text |-> "", bytes |-> "none"]

Outcome(k, d, o) == [kind |-> k, detail |-> d, output |-> o]

(***************************************************************************)
(* Session inputs (Spec).                                                  *)
(***************************************************************************)
SessionValues(f) ==
    CASE f = "full_name"         -> { "Ada Lovelace" }
      [] f = "email"             -> { "ada@example.com" }
      [] f = "phone_number"      -> { "+123456789" }
      [] f = "linkedIn_profile"  -> { GoodUrl, FtpUrl }
      [] f = "portfolio_website" -> { }
      [] f = "summary"           -> { "Engineer" }
      [] f = "skills"            -> { << >>, << "math" >> }
      [] f = "experience"        ->
            BoundedSeq({ Entry(ExperienceKeys), Entry(ExperienceKeys \ {"end_date"}) },
                       MaxSessionEntries)
      [] f = "education"         ->
            BoundedSeq({ Entry(EducationKeys) }, MaxSessionEntries)

\* the partial field maps one turn supplies: nothing, or one field
UpdateMaps ==
    { EmptyDict } \cup UNION { { f :> v : v \in SessionValues(f) } : f \in Fields }

Terminal == { "SUBMITTED", "CANCELLED" }

(***************************************************************************)
(* Lifecycle.                                                              *)
(***************************************************************************)
CheckIdle == pc = "idle" /\ input = EmptyDict /\ result = << >>

Init ==
    /\ state = "COLLECTING"
    /\ record = EmptyDict
    /\ lastOp = "none"
    /\ outcome = Outcome("none", << >>, NoOutput)
    /\ pipelineRuns = 0
    /\ stages = NoStages
    /\ CheckIdle

\* the SUBMITTED transition: submit runs on the record, once
RunPipeline(rec) ==
    \E r \in RenderOutcomes, c \in ConvertOutcomes, e \in EncodeOutcomes :
        /\ outcome' = Outcome("submitted", << >>, submit(rec, r, c, e))
        /\ stages' = StagesOf(r, c, e)
        /\ pipelineRuns' = pipelineRuns + 1

\* update(session, m) in COLLECTING
Update(m) ==
    /\ state = "COLLECTING"
    /\ lastOp' = "update"
    /\ record' = m @@ record
    /\ LET errs == CVValidate(record')
       IN  IF errs = << >>
           THEN IF ask_confirm
                THEN /\ state' = "AWAITING_CONFIRMATION"
                     /\ outcome' = Outcome("awaiting_confirmation", << >>,
                                           message_wait_confirm)
                     /\ UNCHANGED <<pipelineRuns, stages>>
                ELSE /\ state' = "SUBMITTED"
                     /\ RunPipeline(record')
           ELSE /\ state' = "COLLECTING"
                /\ outcome' = Outcome("continue", errs, message_incomplete)
                /\ UNCHANGED <<pipelineRuns, stages>>
    /\ UNCHANGED <<pc, input, result>>

\* Mutant: the state is not looked at, the update is applied to the record
UpdateRejected_applies(m) ==
    /\ state # "COLLECTING"
    /\ lastOp' = "update"
    /\ record' = m @@ record
    /\ outcome' = Outcome("continue", CVValidate(record'), message_incomplete)
    /\ UNCHANGED <<state, pipelineRuns, stages, pc, input, result>>

\* update(session, m) in any other state: an invalid-state operation
UpdateRejected(m) ==
    /\ state # "COLLECTING"
    /\ lastOp' = "update"
    /\ outcome' = Outcome("invalid_state", << >>, NoOutput)
    /\ UNCHANGED <<state, record, pipelineRuns, stages, pc, input, result>>

\* Mutant: a negative confirmation starts the collection over with an empty record
Confirm_resets(b) ==
    /\ state = "AWAITING_CONFIRMATION"
    /\ IF b
       THEN /\ lastOp' = "confirm_yes"
            /\ state' = "SUBMITTED"
            /\ record' = record
            /\ RunPipeline(record)
       ELSE /\ lastOp' = "confirm_no"
            /\ state' = "COLLECTING"
            /\ record' = EmptyDict
            /\ outcome' = Outcome("continue", << >>, message_incomplete)
            /\ UNCHANGED <<pipelineRuns, stages>>
    /\ UNCHANGED <<pc, input, result>>

\* confirm(session, b) in AWAITING_CONFIRMATION
Confirm(b) ==
    /\ state = "AWAITING_CONFIRMATION"
    /\ IF b
       THEN /\ lastOp' = "confirm_yes"
            /\ state' = "SUBMITTED"
            /\ RunPipeline(record)
       ELSE /\ lastOp' = "confirm_no"
            /\ state' = "COLLECTING"
            /\ outcome' = Outcome("continue", << >>, message_incomplete)
            /\ UNCHANGED <<pipelineRuns, stages>>
    /\ UNCHANGED <<record, pc, input, result>>

\* confirm(session, b) in any other state
ConfirmRejected(b) ==
    /\ state # "AWAITING_CONFIRMATION"
    /\ lastOp' = IF b THEN "confirm_yes" ELSE "confirm_no"
    /\ outcome' = Outcome("invalid_state", << >>, NoOutput)
    /\ UNCHANGED <<state, record, pipelineRuns, stages, pc, input, result>>

\* cancel(session) in a non-terminal state: the record is discarded
Cancel ==
    /\ state \notin Terminal
    /\ lastOp' = "cancel"
    /\ state' = "CANCELLED"
    /\ record' = EmptyDict
    /\ outcome' = Outcome("cancelled", << >>, message_closed)
    /\ UNCHANGED <<pipelineRuns, stages, pc, input, result>>

\* cancel(session) in a terminal state
CancelRejected ==
    /\ state \in Terminal
    /\ lastOp' = "cancel"
    /\ outcome' = Outcome("invalid_state", << >>, NoOutput)
    /\ UNCHANGED <<state, record, pipelineRuns, stages, pc, input, result>>

Next ==
    \/ \E m \in UpdateMaps : Update(m)
    \/ \E m \in UpdateMaps : UpdateRejected(m)
    \/ \E b \in BOOLEAN : Confirm(b)
    \/ \E b \in BOOLEAN : ConfirmRejected(b)
    \/ Cancel
    \/ CancelRejected

Spec == Init /\ [][Next]_vars

(***************************************************************************)
(* The validators applied to a candidate record.                           *)
(***************************************************************************)
SessionIdle ==
    /\ state = "COLLECTING"
    /\ record = EmptyDict
    /\ lastOp = "none"
    /\ outcome = Outcome("none", << >>, NoOutput)
    /\ pipelineRuns = 0
    /\ stages = NoStages

InitCheck ==
    /\ SessionIdle
    /\ pc = "input"
    /\ input \in CheckInputs
    /\ result = << >>

\* CV(**input)
Check ==
    /\ pc = "input"
    /\ result' = CVValidate(input)
    /\ pc' = "checked"
    /\ UNCHANGED <<state, record, lastOp, outcome, pipelineRuns, stages, input>>

NextCheck == Check

SpecCheck == InitCheck /\ [][NextCheck]_vars

(***************************************************************************)
(* Properties.                                                             *)
(***************************************************************************)
\* the schema's constraints stated directly on a record: every required field
\* present, URL fields well-formed when present, skills non-empty, every list
\* entry holding its required keys
SchemaComplete(rec) ==
    /\ { "full_name", "email", "summary", "skills", "experience", "education" }
            \subseteq DOMAIN rec
    /\ \A f \in { "linkedIn_profile", "portfolio_website" } \cap DOMAIN rec :
            rec[f].scheme \in { "http", "https" } /\ rec[f].host # ""
    /\ rec.skills # << >>
    /\ \A i \in 1..Len(rec.experience) :
            ExperienceKeys \subseteq DOMAIN rec.experience[i]
    /\ \A i \in 1..Len(rec.education) :
            EducationKeys \subseteq DOMAIN rec.education[i]

\* the fields a record is missing or holds an invalid value for
OffendingFields(rec) ==
    { f \in { "full_name", "email", "summary", "skills", "experience", "education" } :
            f \notin DOMAIN rec }
    \cup { f \in { "linkedIn_profile", "portfolio_website" } \cap DOMAIN rec :
            ~ (rec[f].scheme \in { "http", "https" } /\ rec[f].host # "") }
    \cup { f \in { "skills" } \cap DOMAIN rec : rec[f] = << >> }
    \cup { f \in { "experience" } \cap DOMAIN rec :
            \E i \in 1..Len(rec[f]) : ~ (ExperienceKeys \subseteq DOMAIN rec[f][i]) }
    \cup { f \in { "education" } \cap DOMAIN rec :
            \E i \in 1..Len(rec[f]) : ~ (EducationKeys \subseteq DOMAIN rec[f][i]) }

\* the fields an error list names
Locs(errs) == { errs[i].loc : i \in 1..Len(errs) }

\* C1: in every session submit runs at most once, and at the moment it runs the
\* session's record satisfies every constraint of the schema.
C1_PipelineOnceOnComplete ==
    [][ pipelineRuns' # pipelineRuns
            => /\ pipelineRuns = 0
               /\ pipelineRuns' = 1
               /\ SchemaComplete(record)
               /\ record' = record ]_vars

C1_Witness ==
    /\ pipelineRuns = 1
    /\ state = "SUBMITTED"
    /\ SchemaComplete(record)
    /\ "linkedIn_profile" \in DOMAIN record

\* C2: an update issued in COLLECTING leads to AWAITING_CONFIRMATION when the
\* record is then complete and confirmation is required, to SUBMITTED when it is
\* complete and confirmation is not required, and otherwise stays in COLLECTING
\* and returns the failure detail naming the missing or invalid fields.
C2_UpdateTransitions ==
    [][ (state = "COLLECTING" /\ lastOp' = "update")
            => IF SchemaComplete(record')
               THEN /\ ask_confirm => state' = "AWAITING_CONFIRMATION"
                    /\ ~ ask_confirm => state' = "SUBMITTED"
               ELSE /\ state' = "COLLECTING"
                    /\ outcome'.kind = "continue"
                    /\ outcome'.detail # << >>
                    /\ Locs(outcome'.detail) = OffendingFields(record') ]_vars

C2_Witness ==
    /\ lastOp = "update"
    /\ state = "AWAITING_CONFIRMATION"
    /\ outcome.kind = "awaiting_confirmation"
    /\ SchemaComplete(record)

\* C3: a negative confirmation in AWAITING_CONFIRMATION moves the session back
\* to COLLECTING, leaves the record as it was and does not run the pipeline.
C3_NegativeConfirmKeepsRecord ==
    [][ (state = "AWAITING_CONFIRMATION" /\ lastOp' = "confirm_no")
            => /\ state' = "COLLECTING"
               /\ record' = record
               /\ pipelineRuns' = pipelineRuns ]_vars

C3_Witness ==
    /\ lastOp = "confirm_no"
    /\ state = "COLLECTING"
    /\ outcome.kind = "continue"
    /\ SchemaComplete(record)
    /\ pipelineRuns = 0

\* C4: cancel in a non-terminal state moves the session to CANCELLED without
\* running the pipeline; CANCELLED is terminal, and every later update is
\* rejected as an invalid-state operation that changes neither state nor record.
C4_CancelIsTerminal ==
    [][ /\ (state \notin Terminal /\ lastOp' = "cancel")
            => (state' = "CANCELLED" /\ pipelineRuns' = pipelineRuns)
        /\ state = "CANCELLED"
            => /\ state' = "CANCELLED"
               /\ record' = record
               /\ pipelineRuns' = pipelineRuns
               /\ lastOp' = "update" => outcome'.kind = "invalid_state" ]_vars

C4_Witness ==
    /\ state = "CANCELLED"
    /\ lastOp = "update"
    /\ outcome.kind = "invalid_state"
    /\ pipelineRuns = 0

\* a stage of the last run of submit failed
StageFailed ==
    \/ stages.render = "raise"
    \/ stages.convert \in { "err", "raise" }
    \/ stages.encode = "raise"

\* C5: when a pipeline stage fails the session stays terminal (it does not go
\* back to COLLECTING), the pipeline is not run again, and the caller receives
\* a failure message instead of a delivery payload.
C5_StageFailureReported ==
    StageFailed
        => /\ state = "SUBMITTED"
           /\ pipelineRuns = 1
           /\ outcome.kind = "submitted" => outcome.output.text = "error"

\* C6: whenever the converter reports an error or produces only a partial
\* document, submit returns a failure and never a download payload built from
\* the partial bytes.
C6_ConversionFailureReported ==
    (outcome.kind = "submitted" /\ stages.convert \in { "err", "raise" })
        => /\ outcome.output.text = "error"
           /\ outcome.output.bytes = "none"

\* the indices of the entries of value lacking one of keys, in order
Offending(value, keys) ==
    SelectSeq([i \in 1..Len(value) |-> i],
              LAMBDA i : ~ (keys \subseteq DOMAIN value[i]))

\* the errors of an error list reported for field f, in order
ErrorsOf(errs, f) == SelectSeq(errs, LAMBDA e : e.loc = f /\ e.type = "value_error")

\* one error per offending entry of field f, each naming exactly the keys that
\* entry is missing, in the order of the entries
OnePerOffendingEntry(f, keys) ==
    f \in DOMAIN input
        => LET bad  == Offending(input[f], keys)
               errs == ErrorsOf(result, f)
           IN  /\ Len(errs) = Len(bad)
               /\ \A j \in 1..Len(bad) :
                      j <= Len(errs) => errs[j].keys = keys \ DOMAIN input[f][bad[j]]

OneErrorPerField(f, keys) ==
    f \in DOMAIN input
        => ErrorsOf(result, f) =
              IF Offending(input[f], keys) # << >>
              THEN << [loc |-> f, type |-> "value_error", keys |-> keys] >>
              ELSE << >>

MissingReported(errs) == { errs[i].loc : i \in { j \in 1..Len(errs) : errs[j].type = "missing" } }

\* C8 as stated: the fields reported as missing are exactly the required scalar
\* fields (full_name, email, summary) absent from the record.
C8_MissingExactlyScalars ==
    pc = "checked"
        => MissingReported(result) = { "full_name", "email", "summary" } \ DOMAIN input

\* C8 (amended): the fields reported as missing are exactly the required fields
\* (full_name, email, summary, skills, experience, education) absent from the
\* record: no missing required field is omitted and no present or optional
\* field is reported.
C8_MissingExactlyRequired ==
    pc = "checked"
        => MissingReported(result) =
              { "full_name", "email", "summary", "skills", "experience", "education" }
                  \ DOMAIN input

C8_Witness ==
    /\ pc = "checked"
    /\ DOMAIN input = { "email", "experience" }
    /\ MissingReported(result) = { "full_name", "summary", "skills", "education" }

\* the acceptance condition C9 states
ClaimedComplete(rec) ==
    /\ SchemaComplete(rec)
    /\ rec.full_name # ""
    /\ rec.email # ""
    /\ rec.summary # ""

\* C9: the check accepts a record exactly when full_name, email and summary are
\* present and non-empty, the URL fields are well-formed when present, skills
\* is non-empty and every list entry has its required keys; an empty skills
\* list is rejected with the skills error, and an empty full_name or summary
\* is rejected.
C9_AcceptsExactlyComplete ==
    pc = "checked"
        => /\ (result = << >>) <=> ClaimedComplete(input)
           /\ ("skills" \in DOMAIN input /\ input.skills = << >>)
                => \E i \in 1..Len(result) :
                      result[i].loc = "skills" /\ result[i].type = "value_error"

\* C10: with ask_confirm set, no session goes from COLLECTING directly to
\* SUBMITTED: submit runs only in a step that is a positive confirmation taken
\* in AWAITING_CONFIRMATION, hence after the last update of the record.
C10_ConfirmBeforeSubmit ==
    [][ /\ state = "COLLECTING" => state' # "SUBMITTED"
        /\ pipelineRuns' # pipelineRuns
            => (state = "AWAITING_CONFIRMATION" /\ lastOp' = "confirm_yes") ]_vars

C10_Witness ==
    /\ state = "SUBMITTED"
    /\ lastOp = "confirm_yes"
    /\ outcome.kind = "submitted"
    /\ outcome.output.text = "download"

====
